---------------------------- MODULE Spec2Model ----------------------------
(***************************************************************************)
(* Verification model of four fragments of the LLVM monorepo:              *)
(*   - mlir/lib/Bindings/Python/PybindUtils.h : class Sliceable            *)
(*   - libcxx/benchmarks/CMakeLists.txt       : benchmark registration     *)
(*   - flang/runtime/CMakeLists.txt           : runtime configuration      *)
(*   - the dfsan shadow-args FileCheck test (custom ABI wrappers)          *)
(* Each fragment has its own variables, actions and specification; the     *)
(* other fragments' variables stay at their idle values.                   *)
(***************************************************************************)
EXTENDS Integers, Sequences, FiniteSets, TLC

VARIABLES
  rawN,     \* Derived::getRawNumElements(): size of the backing container
  self,     \* the Sliceable object: [startIndex, length, step]
  op,       \* the entry point last called and its argument
  ret,      \* what that call returned (kind "none": no call in progress)
  err,      \* the Python error indicator after the call
  calls,    \* calls made on Derived / Sliceable helpers during the call
  ub,       \* TRUE when the call evaluated an overflowing intptr_t expression
  \* libcxx/benchmarks/CMakeLists.txt
  bpc,      \* "idle", "loop" (inside foreach), "done", "error"
  brun,     \* number of configure runs started on this build directory
  bidx,     \* index into BENCHMARK_TESTS of the next foreach iteration
  bopts,    \* the cached options the file reads
  bcache,   \* names of the entries of CMakeCache.txt
  bcache0,  \* bcache as it was when the current run started
  bmsgs,    \* message(STATUS ...) lines of all runs: [run, text]
  badded,   \* add_benchmark_test(name, source) calls of the current run
  bproj,    \* targets, dependencies, links, properties of the current run
  \* flang/runtime/CMakeLists.txt
  fpc,      \* position in the file
  fenv,     \* what the platform answers to the probes
  fv,       \* CMake variables set so far
  fdefs,    \* add_compile_definitions so far
  fout,     \* messages, configured files and libraries so far
  \* dfsan custom ABI
  dpc,      \* position of the pass on the function
  dfn,      \* the custom-ABI function called
  dout      \* the IR emitted for it

svars == <<rawN, self, op, ret, err, calls, ub>>
bvars == <<bpc, brun, bidx, bopts, bcache, bcache0, bmsgs, badded, bproj>>
fvars == <<fpc, fenv, fv, fdefs, fout>>
dvars == <<dpc, dfn, dout>>
vars == <<svars, bvars, fvars, dvars>>

---------------------------------------------------------------------------
(* Bounds of the Sliceable model.  intptr_t / Py_ssize_t is modelled as a  *)
(* two's-complement style range PY_SSIZE_T_MIN..PY_SSIZE_T_MAX.            *)
PY_SSIZE_T_MAX == 7
MaxRaw == 3

PY_SSIZE_T_MIN == -PY_SSIZE_T_MAX - 1
Ssize == PY_SSIZE_T_MIN..PY_SSIZE_T_MAX
InSsize(x) == x >= PY_SSIZE_T_MIN /\ x <= PY_SSIZE_T_MAX
\* the value a wrapping build leaves in an intptr_t
Wrap(x) == ((x - PY_SSIZE_T_MIN) % (2 * (PY_SSIZE_T_MAX + 1))) + PY_SSIZE_T_MIN

\* Python objects used as subscripts
PyNone == [k |-> "none", v |-> 0]
PyIntObj(n) == [k |-> "int", v |-> n]
PyOther == [k |-> "obj", v |-> 0]
PySliceObj(a, b, c) == [k |-> "slice", start |-> a, stop |-> b, step |-> c]

\* Python ints reach beyond Py_ssize_t on both sides
PyInts == (PY_SSIZE_T_MIN - 2)..(PY_SSIZE_T_MAX + 2)
\* slice bounds: None, a non-index object, ints around every length, the
\* extremes of Py_ssize_t and one int beyond each extreme
SliceBoundInts == (-MaxRaw..MaxRaw) \cup {PY_SSIZE_T_MIN - 1, PY_SSIZE_T_MAX + 1}
SliceStepInts == (-2..2) \cup {PY_SSIZE_T_MIN - 1, PY_SSIZE_T_MIN, PY_SSIZE_T_MAX, PY_SSIZE_T_MAX + 1}
SliceBounds == {PyNone, PyOther} \cup {PyIntObj(n) : n \in SliceBoundInts}
SliceSteps == {PyNone, PyOther} \cup {PyIntObj(n) : n \in SliceStepInts}
PySlices == {PySliceObj(a, b, c) : a \in SliceBounds, b \in SliceBounds, c \in SliceSteps}
Subscripts == {PyIntObj(n) : n \in PyInts} \cup PySlices \cup {PyOther}

NoErr == [type |-> "none", msg |-> ""]
NoRet == [kind |-> "none"]
Null == [kind |-> "null"]

---------------------------------------------------------------------------
(* CPython C API used by the header                                        *)

\* PyNumber_AsSsize_t(o, exc): the value when it fits; otherwise clamps when
\* exc is NULL and raises exc when it is given; TypeError for a non-index.
PyNumber_AsSsize_t(o, exc) ==
  IF o.k # "int" THEN [v |-> -1, err |-> [type |-> "TypeError", msg |-> "object cannot be interpreted as an integer"]]
  ELSE IF InSsize(o.v) THEN [v |-> o.v, err |-> NoErr]
  ELSE IF exc = "NULL"
       THEN [v |-> IF o.v < 0 THEN PY_SSIZE_T_MIN ELSE PY_SSIZE_T_MAX, err |-> NoErr]
       ELSE [v |-> -1, err |-> [type |-> exc, msg |-> "cannot fit 'int' into an index-sized integer"]]

PySlice_Check(o) == o.k = "slice"

\* _PyEval_SliceIndex: ok = 0 with TypeError for a non-index object
PyEval_SliceIndex(o) ==
  IF o.k = "int" THEN [ok |-> TRUE, v |-> PyNumber_AsSsize_t(o, "NULL").v]
  ELSE [ok |-> FALSE, v |-> 0]

\* PySlice_Unpack: step first (None -> 1, 0 -> ValueError, MIN -> -MAX),
\* then start and stop with their defaults by the sign of step
PySlice_Unpack(o) ==
  LET st == IF o.step.k = "none" THEN [ok |-> TRUE, v |-> 1] ELSE PyEval_SliceIndex(o.step)
      step == IF st.v < -PY_SSIZE_T_MAX THEN -PY_SSIZE_T_MAX ELSE st.v
      a == IF o.start.k = "none"
           THEN [ok |-> TRUE, v |-> IF step < 0 THEN PY_SSIZE_T_MAX ELSE 0]
           ELSE PyEval_SliceIndex(o.start)
      b == IF o.stop.k = "none"
           THEN [ok |-> TRUE, v |-> IF step < 0 THEN PY_SSIZE_T_MIN ELSE PY_SSIZE_T_MAX]
           ELSE PyEval_SliceIndex(o.stop)
  IN IF ~st.ok \/ st.v = 0 \/ ~a.ok \/ ~b.ok
     THEN [ok |-> FALSE, start |-> 0, stop |-> 0, step |-> 0]
     ELSE [ok |-> TRUE, start |-> a.v, stop |-> b.v, step |-> step]

\* PySlice_AdjustIndices: clips start and stop to the length, returns the
\* slice length
AdjustBound(x, length, step) ==
  IF x < 0
  THEN IF x + length < 0 THEN (IF step < 0 THEN -1 ELSE 0) ELSE x + length
  ELSE IF x >= length THEN (IF step < 0 THEN length - 1 ELSE length) ELSE x

PySlice_AdjustIndices(length, start0, stop0, step) ==
  LET start == AdjustBound(start0, length, step)
      stop == AdjustBound(stop0, length, step)
      n == IF step < 0
           THEN IF stop < start THEN ((start - stop - 1) \div (-step)) + 1 ELSE 0
           ELSE IF start < stop THEN ((stop - start - 1) \div step) + 1 ELSE 0
  IN [start |-> start, stop |-> stop, sliceLength |-> n]

\* PySlice_GetIndicesEx(slice, length, &start, &stop, &step, &slicelength)
PySlice_GetIndicesEx(o, length) ==
  LET u == PySlice_Unpack(o)
      a == PySlice_AdjustIndices(length, u.start, u.stop, u.step)
  IN IF ~u.ok
     THEN [ok |-> FALSE, start |-> 0, stop |-> 0, step |-> 0, sliceLength |-> 0]
     ELSE [ok |-> TRUE, start |-> a.start, stop |-> a.stop, step |-> u.step,
           sliceLength |-> a.sliceLength]

---------------------------------------------------------------------------
(* class Sliceable                                                         *)

Slice(a, n, s) == [startIndex |-> a, length |-> n, step |-> s]
Call(f, args) == [f |-> f, args |-> args]
Outcome(r, e, c, u) == [ret |-> r, err |-> e, calls |-> c, ub |-> u]

\* wrapIndex without the wrap of negative indices
wrapIndex_NoNegative(s, index) ==
  IF index < 0 \/ index >= s.length THEN -1 ELSE index

\* wrapIndex: a legal slice index, or -1
wrapIndex(s, index) ==
  LET i == IF index < 0 THEN s.length + index ELSE index
  IN IF i < 0 \/ i >= s.length THEN -1 ELSE i

\* linearizeIndex: index * step + startIndex
linearizeIndex(s, index) == index * s.step + s.startIndex

\* the assertion of linearizeIndex
LinearIndexLegal(n, linearIndex) == linearIndex >= 0 /\ linearIndex < n

\* getItem returning the empty object without setting the error
getItem_NoErrorSet(s, n, index) ==
  LET i == wrapIndex(s, index)
      lin == linearizeIndex(s, i)
  IN IF i < 0
     THEN Outcome(Null, NoErr, <<>>, FALSE)
     ELSE Outcome([kind |-> "object", raw |-> lin], NoErr,
                  <<Call("linearizeIndex", <<i>>), Call("getRawElement", <<lin>>)>>, FALSE)

\* getItem: IndexError and an empty object out of bounds, else the cast of
\* the raw element
getItem(s, n, index) ==
  LET i == wrapIndex(s, index)
      lin == linearizeIndex(s, i)
  IN IF i < 0
     THEN Outcome(Null, [type |-> "IndexError", msg |-> "index out of range"], <<>>, FALSE)
     ELSE IF ~LinearIndexLegal(n, lin)
     THEN Outcome([kind |-> "assert"], NoErr, <<Call("linearizeIndex", <<i>>)>>, ~InSsize(lin))
     ELSE Outcome([kind |-> "object", raw |-> lin], NoErr,
                  <<Call("linearizeIndex", <<i>>), Call("getRawElement", <<lin>>)>>, FALSE)

\* getElement: throws index_error out of bounds, else the raw element
getElement(s, n, index) ==
  LET i == wrapIndex(s, index)
      lin == linearizeIndex(s, i)
  IN IF i < 0
     THEN Outcome([kind |-> "throw", what |-> "index out of range"], NoErr, <<>>, FALSE)
     ELSE IF ~LinearIndexLegal(n, lin)
     THEN Outcome([kind |-> "assert"], NoErr, <<Call("linearizeIndex", <<i>>)>>, ~InSsize(lin))
     ELSE Outcome([kind |-> "element", raw |-> lin], NoErr,
                  <<Call("linearizeIndex", <<i>>), Call("getRawElement", <<lin>>)>>, FALSE)

\* getItemSlice: the outcomes of Derived::slice(startIndex + start * step,
\* sliceLength, step * extraStep).  The arithmetic is intptr_t: when a
\* product or the sum leaves the range the behaviour is undefined, and a
\* build either wraps or traps.
getItemSlice(s, o) ==
  LET g == PySlice_GetIndicesEx(o, s.length)
      prod == g.start * s.step
      newStart == s.startIndex + prod
      newStep == s.step * g.step
      over == ~InSsize(prod) \/ ~InSsize(newStart) \/ ~InSsize(newStep)
      args == <<Wrap(newStart), g.sliceLength, Wrap(newStep)>>
      made == Outcome([kind |-> "slice", startIndex |-> args[1], length |-> args[2], step |-> args[3]],
                      NoErr, <<Call("slice", args)>>, over)
  IN IF ~g.ok
     THEN {Outcome(Null, [type |-> "IndexError", msg |-> "index out of range"], <<>>, FALSE)}
     ELSE IF over
     THEN {made, Outcome([kind |-> "trap"], NoErr, <<>>, TRUE)}
     ELSE {made}

\* the mp_subscript slot installed by bind
mp_subscript(s, n, o) ==
  LET c == PyNumber_AsSsize_t(o, "IndexError")
  IN IF c.err.type = "none"
     THEN {getItem(s, n, c.v)}
     ELSE IF PySlice_Check(o)
     THEN getItemSlice(s, o)
     ELSE {Outcome(Null, [type |-> "ValueError", msg |-> "expected integer or slice"], <<>>, FALSE)}

---------------------------------------------------------------------------
(* Sliceable: state machine                                                *)

Idle == ret = NoRet

Apply(name, arg, out) ==
  /\ op' = [name |-> name, arg |-> arg]
  /\ ret' = out.ret
  /\ err' = out.err
  /\ calls' = out.calls
  /\ ub' = out.ub
  /\ UNCHANGED <<rawN, self, bvars, fvars, dvars>>

\* C++ callers: Sliceable::getElement(index)
GetElement ==
  /\ Idle
  /\ \E i \in Ssize : Apply("getElement", PyIntObj(i), getElement(self, rawN, i))

\* the sq_item slot: getItem(index)
SqItem ==
  /\ Idle
  /\ \E i \in Ssize : Apply("sq_item", PyIntObj(i), getItem(self, rawN, i))

\* the mp_subscript slot
MpSubscript ==
  /\ Idle
  /\ \E o \in Subscripts : \E out \in mp_subscript(self, rawN, o) :
        Apply("mp_subscript", o, out)

\* the caller takes the result and keeps using the same object
Return ==
  /\ ret.kind \in {"null", "object", "element", "throw", "slice"}
  /\ ret' = NoRet /\ err' = NoErr /\ calls' = <<>> /\ ub' = FALSE
  /\ op' = [name |-> "none", arg |-> PyNone]
  /\ UNCHANGED <<rawN, self, bvars, fvars, dvars>>

\* the caller goes on with the new instance of Derived, slicing it further
Descend ==
  /\ ret.kind = "slice"
  /\ self' = Slice(ret.startIndex, ret.length, ret.step)
  /\ ret' = NoRet /\ err' = NoErr /\ calls' = <<>> /\ ub' = FALSE
  /\ op' = [name |-> "none", arg |-> PyNone]
  /\ UNCHANGED <<rawN, bvars, fvars, dvars>>

SliceInit ==
  /\ rawN \in 0..MaxRaw
  /\ self = Slice(0, rawN, 1)
  /\ op = [name |-> "none", arg |-> PyNone]
  /\ ret = NoRet /\ err = NoErr /\ calls = <<>> /\ ub = FALSE

\* no Sliceable object exists
SliceIdle ==
  /\ rawN = 0
  /\ self = Slice(0, 0, 1)
  /\ op = [name |-> "none", arg |-> PyNone]
  /\ ret = NoRet /\ err = NoErr /\ calls = <<>> /\ ub = FALSE

SliceNext == GetElement \/ SqItem \/ MpSubscript \/ Return \/ Descend

---------------------------------------------------------------------------
(* libcxx/benchmarks/CMakeLists.txt                                        *)

\* configure runs modelled on one build directory
MaxRuns == 2

BENCHMARK_TESTS == <<
  "algorithms.partition_point.bench.cpp",
  "algorithms/equal.bench.cpp",
  "algorithms/find.bench.cpp",
  "algorithms/lower_bound.bench.cpp",
  "algorithms/make_heap.bench.cpp",
  "algorithms/make_heap_then_sort_heap.bench.cpp",
  "algorithms/min.bench.cpp",
  "algorithms/min_max_element.bench.cpp",
  "algorithms/pop_heap.bench.cpp",
  "algorithms/push_heap.bench.cpp",
  "algorithms/ranges_make_heap.bench.cpp",
  "algorithms/ranges_make_heap_then_sort_heap.bench.cpp",
  "algorithms/ranges_pop_heap.bench.cpp",
  "algorithms/ranges_push_heap.bench.cpp",
  "algorithms/ranges_sort.bench.cpp",
  "algorithms/ranges_sort_heap.bench.cpp",
  "algorithms/ranges_stable_sort.bench.cpp",
  "algorithms/sort.bench.cpp",
  "algorithms/sort_heap.bench.cpp",
  "algorithms/stable_sort.bench.cpp",
  "libcxxabi/dynamic_cast.bench.cpp",
  "allocation.bench.cpp",
  "deque.bench.cpp",
  "deque_iterator.bench.cpp",
  "filesystem.bench.cpp",
  "format_to_n.bench.cpp",
  "format_to.bench.cpp",
  "format.bench.cpp",
  "formatted_size.bench.cpp",
  "formatter_float.bench.cpp",
  "formatter_int.bench.cpp",
  "function.bench.cpp",
  "join_view.bench.cpp",
  "lexicographical_compare_three_way.bench.cpp",
  "map.bench.cpp",
  "monotonic_buffer.bench.cpp",
  "ordered_set.bench.cpp",
  "std_format_spec_string_unicode.bench.cpp",
  "string.bench.cpp",
  "stringstream.bench.cpp",
  "to_chars.bench.cpp",
  "unordered_set_operations.bench.cpp",
  "util_smartptr.bench.cpp",
  "variant_visit_1.bench.cpp",
  "variant_visit_2.bench.cpp",
  "variant_visit_3.bench.cpp",
  "vector_operations.bench.cpp"
>>

\* if(<variable>): false for the false constants
CMakeTrue(v) == v \notin {"", "0", "OFF", "NO", "FALSE", "N", "IGNORE", "NOTFOUND"}

\* get_filename_component(<var> <path> NAME): the part after the last "/"
RECURSIVE LastSlash(_, _)
LastSlash(s, i) ==
  IF i = 0 THEN 0
  ELSE IF SubSeq(s, i, i) = "/" THEN i ELSE LastSlash(s, i - 1)

get_filename_component_NAME(path) ==
  SubSeq(path, LastSlash(path, Len(path)) + 1, Len(path))

\* string(REPLACE <match> <replace> <out> <input>): every occurrence
RECURSIVE string_REPLACE(_, _, _)
string_REPLACE(match, replace, input) ==
  IF Len(input) < Len(match) THEN input
  ELSE IF SubSeq(input, 1, Len(match)) = match
  THEN replace \o string_REPLACE(match, replace, SubSeq(input, Len(match) + 1, Len(input)))
  ELSE SubSeq(input, 1, 1) \o string_REPLACE(match, replace, SubSeq(input, 2, Len(input)))

\* add_executable: a second target of the same name is an error
add_executable(p, target, source) ==
  IF \E i \in 1..Len(p.targets) : p.targets[i] = target
  THEN [p EXCEPT !.error = TRUE]
  ELSE [p EXCEPT !.targets = Append(@, target),
                 !.props = @ \cup {<<target, "SOURCES", source>>}]

\* the library chosen whatever LIBCXX_ENABLE_SHARED says
LibcxxLibrary_AlwaysShared(o) == "cxx_shared"

\* if (LIBCXX_ENABLE_SHARED) cxx_shared else() cxx_static
LibcxxLibrary(o) == IF CMakeTrue(o.LIBCXX_ENABLE_SHARED) THEN "cxx_shared" ELSE "cxx_static"

\* function(add_benchmark_test name source_file)
add_benchmark_test(p, o, name, source_file) ==
  LET libcxx_target == name \o "_libcxx"
      p1 == add_executable(p, libcxx_target, source_file)
      p2 == [p1 EXCEPT
               !.links = @ \cup {<<libcxx_target, "cxx-benchmarks-flags-libcxx">>,
                                 <<libcxx_target, LibcxxLibrary(o)>>,
                                 <<libcxx_target, "cxx_experimental">>,
                                 <<libcxx_target, "benchmark">>}
                          \cup (IF CMakeTrue(o.LLVM_USE_SANITIZER)
                                THEN {<<libcxx_target, "-ldl">>} ELSE {}),
               !.deps = @ \cup {<<libcxx_target, "cxx">>,
                               <<libcxx_target, "google-benchmark-libcxx">>,
                               <<"cxx-benchmarks", libcxx_target>>},
               !.props = @ \cup {<<libcxx_target, "OUTPUT_NAME", name \o ".libcxx.out">>}]
      native_target == name \o "_native"
      p3 == add_executable(p2, native_target, source_file)
      p4 == [p3 EXCEPT
               !.links = @ \cup {<<native_target, "cxx-benchmarks-flags-native">>,
                                 <<native_target, "-lbenchmark">>}
                          \cup (IF CMakeTrue(o.LIBCXX_HAS_PTHREAD_LIB)
                                THEN {<<native_target, "-pthread">>} ELSE {}),
               !.deps = @ \cup {<<native_target, "google-benchmark-native">>,
                               <<native_target, "google-benchmark-libcxx">>,
                               <<"cxx-benchmarks", native_target>>},
               !.props = @ \cup {<<native_target, "OUTPUT_NAME", name \o ".native.out">>}]
  IN IF p1.error THEN p1
     ELSE IF ~CMakeTrue(o.LIBCXX_BENCHMARK_NATIVE_STDLIB) THEN p2
     ELSE IF p3.error THEN p3
     ELSE p4

\* the report without the cache entry that remembers it
ReportOnce_NoCache(cache, test_name, test_file) ==
  IF (test_name \o "_REPORTED") \notin cache
  THEN [cache |-> cache, msgs |-> <<"Adding Benchmark: " \o test_file>>]
  ELSE [cache |-> cache, msgs |-> <<>>]

\* if (NOT DEFINED ${test_name}_REPORTED) message(...) set(... CACHE INTERNAL "")
ReportOnce(cache, test_name, test_file) ==
  IF (test_name \o "_REPORTED") \notin cache
  THEN [cache |-> cache \cup {test_name \o "_REPORTED"},
        msgs |-> <<"Adding Benchmark: " \o test_file>>]
  ELSE [cache |-> cache, msgs |-> <<>>]

\* the targets the file defines before the loop: the two ExternalProjects,
\* cxx-benchmarks and the three interface libraries
ProjectBeforeLoop(o) ==
  [targets |-> <<"google-benchmark-libcxx">>
               \o (IF CMakeTrue(o.LIBCXX_BENCHMARK_NATIVE_STDLIB)
                   THEN <<"google-benchmark-native">> ELSE <<>>)
               \o <<"cxx-benchmarks", "cxx-benchmarks-flags",
                    "cxx-benchmarks-flags-native", "cxx-benchmarks-flags-libcxx">>,
   deps |-> {}, links |-> {}, props |-> {}, error |-> FALSE]

NoProject == [targets |-> <<>>, deps |-> {}, links |-> {}, props |-> {}, error |-> FALSE]

BenchOptions ==
  [LIBCXX_ENABLE_SHARED : {"ON", "OFF"},
   LIBCXX_BENCHMARK_NATIVE_STDLIB : {"", "libc++", "libstdc++"},
   LLVM_USE_SANITIZER : {"", "Address"},
   LIBCXX_HAS_PTHREAD_LIB : {"ON", "OFF"}]

\* a configure run that passed the CMake version test of the first lines
\* reaches the targets defined before the loop: everything but the cache is
\* rebuilt
StartRun ==
  /\ bpc \in {"idle", "done", "error"}
  /\ brun < MaxRuns
  /\ brun' = brun + 1
  /\ bpc' = "loop"
  /\ bidx' = 1
  /\ bcache0' = bcache
  /\ badded' = <<>>
  /\ bproj' = ProjectBeforeLoop(bopts)
  /\ UNCHANGED <<bopts, bcache, bmsgs, svars, fvars, dvars>>

\* one iteration of foreach(test_path ${BENCHMARK_TESTS})
ForeachStep ==
  /\ bpc = "loop"
  /\ LET test_path == BENCHMARK_TESTS[bidx]
         test_file == get_filename_component_NAME(test_path)
         test_name == string_REPLACE(".bench.cpp", "", test_file)
         rep == ReportOnce(bcache, test_name, test_file)
         p == add_benchmark_test(bproj, bopts, test_name, test_path)
     IN /\ bcache' = rep.cache
        /\ bmsgs' = bmsgs \o [i \in 1..Len(rep.msgs) |-> [run |-> brun, text |-> rep.msgs[i]]]
        /\ badded' = Append(badded, <<test_name, test_path>>)
        /\ bproj' = p
        /\ bpc' = IF p.error THEN "error"
                  ELSE IF bidx = Len(BENCHMARK_TESTS) THEN "done" ELSE "loop"
        /\ bidx' = bidx + 1
  /\ UNCHANGED <<brun, bopts, bcache0, svars, fvars, dvars>>

\* a build directory before its first run: the options are cached, and a
\* *_REPORTED entry may already be there (given with -D)
BenchInit ==
  /\ bpc = "idle" /\ brun = 0 /\ bidx = 0
  /\ bopts \in BenchOptions
  /\ bcache \in {{}, {"sort_REPORTED"}}
  /\ bcache0 = bcache
  /\ bmsgs = <<>> /\ badded = <<>> /\ bproj = NoProject

BenchIdle ==
  /\ bpc = "idle" /\ brun = 0 /\ bidx = 0
  /\ bopts = [LIBCXX_ENABLE_SHARED |-> "ON", LIBCXX_BENCHMARK_NATIVE_STDLIB |-> "",
              LLVM_USE_SANITIZER |-> "", LIBCXX_HAS_PTHREAD_LIB |-> "ON"]
  /\ bcache = {} /\ bcache0 = {}
  /\ bmsgs = <<>> /\ badded = <<>> /\ bproj = NoProject

BenchNext == StartRun \/ ForeachStep

---------------------------------------------------------------------------
(* flang/runtime/CMakeLists.txt                                            *)

Platforms ==
  [standalone : BOOLEAN, IS_BIGENDIAN : BOOLEAN, HAVE_STRERROR : BOOLEAN,
   HAVE_STRERROR_R : BOOLEAN, HAVE_DECL_STRERROR_S : BOOLEAN,
   FLANG_RUNTIME_HAS_FNO_LTO_FLAG : BOOLEAN]

\* a check_* command stores 1 or the empty string
Probe(found) == IF found THEN "1" ELSE ""

\* the CMake variables the file sets; "unset" before their command has run
NoVariables ==
  [IS_BIGENDIAN |-> "unset", HAVE_STRERROR |-> "unset", HAVE_STRERROR_R |-> "unset",
   HAVE_DECL_STRERROR_S |-> "unset", FLANG_RUNTIME_HAS_FNO_LTO_FLAG |-> "unset",
   NO_LTO_FLAGS |-> "unset"]

NoOutput ==
  [msgs |-> <<>>, configured |-> {}, flags |-> {}, subdirs |-> {}, libraries |-> {},
   undefs |-> {}]

\* if (CMAKE_SOURCE_DIR STREQUAL CMAKE_CURRENT_SOURCE_DIR) ... endif()
FStandalone ==
  /\ fpc = "start"
  /\ IF fenv.standalone
     THEN /\ fv' = [fv EXCEPT !.IS_BIGENDIAN = IF fenv.IS_BIGENDIAN THEN "1" ELSE "0"]
          /\ fdefs' = fdefs \cup (IF CMakeTrue(fv'.IS_BIGENDIAN)
                                 THEN {"FLANG_BIG_ENDIAN=1"}
                                 ELSE {"FLANG_LITTLE_ENDIAN=1"})
     ELSE UNCHANGED <<fv, fdefs>>
  /\ fpc' = "probes"
  /\ UNCHANGED <<fenv, fout, svars, bvars, dvars>>

\* check_cxx_symbol_exists (twice), check_cxx_source_compiles
FProbes ==
  /\ fpc = "probes"
  /\ fv' = [fv EXCEPT !.HAVE_STRERROR = Probe(fenv.HAVE_STRERROR),
                      !.HAVE_STRERROR_R = Probe(fenv.HAVE_STRERROR_R),
                      !.HAVE_DECL_STRERROR_S = Probe(fenv.HAVE_DECL_STRERROR_S)]
  /\ fpc' = "lto"
  /\ UNCHANGED <<fenv, fdefs, fout, svars, bvars, dvars>>

\* check_cxx_compiler_flag(-fno-lto ...) and NO_LTO_FLAGS
FNoLto ==
  /\ fpc = "lto"
  /\ LET has == Probe(fenv.FLANG_RUNTIME_HAS_FNO_LTO_FLAG)
     IN fv' = [fv EXCEPT !.FLANG_RUNTIME_HAS_FNO_LTO_FLAG = has,
                         !.NO_LTO_FLAGS = IF CMakeTrue(has) THEN "-fno-lto" ELSE ""]
  /\ fpc' = "check"
  /\ UNCHANGED <<fenv, fdefs, fout, svars, bvars, dvars>>

\* the test looking at strerror alone
NoStrerror_OnlyStrerror(v) == ~CMakeTrue(v.HAVE_STRERROR)

\* NOT (HAVE_STRERROR OR HAVE_STRERROR_R OR HAVE_DECL_STRERROR_S)
NoStrerror(v) ==
  ~(CMakeTrue(v.HAVE_STRERROR) \/ CMakeTrue(v.HAVE_STRERROR_R) \/ CMakeTrue(v.HAVE_DECL_STRERROR_S))

\* if (NOT (...)) message(FATAL_ERROR ...) endif()
FCheckStrerror ==
  /\ fpc = "check"
  /\ IF NoStrerror(fv)
     THEN /\ fout' = [fout EXCEPT !.msgs = Append(@, <<"FATAL_ERROR", "None of strerror, strerror_r, strerror_s found.">>)]
          /\ fpc' = "fatal"
     ELSE /\ fout' = fout
          /\ fpc' = "configure"
  /\ UNCHANGED <<fenv, fv, fdefs, svars, bvars, dvars>>

\* configure_file(config.h.cmake config.h), append(${NO_LTO_FLAGS} ...) and
\* the add_definitions
FConfigure ==
  /\ fpc = "configure"
  /\ fout' = [fout EXCEPT !.configured = @ \cup {"config.h"},
                          !.flags = @ \cup (IF fv.NO_LTO_FLAGS = "" THEN {} ELSE {fv.NO_LTO_FLAGS}),
                          !.undefs = @ \cup {"_GLIBCXX_ASSERTIONS", "_LIBCPP_ENABLE_ASSERTIONS"}]
  /\ fpc' = "library"
  /\ UNCHANGED <<fenv, fv, fdefs, svars, bvars, dvars>>

\* add_subdirectory(FortranMain) and add_flang_library(FortranRuntime ...)
FLibrary ==
  /\ fpc = "library"
  /\ fout' = [fout EXCEPT !.subdirs = @ \cup {"FortranMain"},
                          !.libraries = @ \cup {"FortranRuntime"}]
  /\ fpc' = "done"
  /\ UNCHANGED <<fenv, fv, fdefs, svars, bvars, dvars>>

FlangInit ==
  /\ fpc = "start" /\ fenv \in Platforms
  /\ fv = NoVariables /\ fdefs = {} /\ fout = NoOutput

FlangIdle ==
  /\ fpc = "idle"
  /\ fenv = [standalone |-> FALSE, IS_BIGENDIAN |-> FALSE, HAVE_STRERROR |-> TRUE,
             HAVE_STRERROR_R |-> TRUE, HAVE_DECL_STRERROR_S |-> FALSE,
             FLANG_RUNTIME_HAS_FNO_LTO_FLAG |-> TRUE]
  /\ fv = NoVariables /\ fdefs = {} /\ fout = NoOutput

FlangNext == FStandalone \/ FProbes \/ FNoLto \/ FCheckStrerror \/ FConfigure \/ FLibrary

---------------------------------------------------------------------------
(* dfsan custom ABI: the wrapper calls the shadow-args test expects        *)

\* most parameters of a modelled custom-ABI function
MaxArgs == 4

Ty(ty, attr) == [ty |-> ty, attr |-> attr]
Fn(name, rty, params) == [name |-> name, ret |-> rty, params |-> params]

\* the three functions the test declares
TestFunctions ==
  { Fn("dfsan_get_label", Ty("i16", "zeroext"), <<Ty("i64", "signext")>>),
    Fn("k2", Ty("i16", "zeroext"), <<Ty("i64", "signext"), Ty("i64", "signext")>>),
    Fn("k4", Ty("i16", "zeroext"), <<Ty("i64", "signext"), Ty("i64", "signext"),
                                     Ty("i64", "signext"), Ty("i64", "signext")>>) }

\* and functions of the same kind with 0..MaxArgs parameters
OtherFunctions ==
  UNION { { Fn("f", Ty("i16", "zeroext"), [i \in 1..n |-> Ty("i64", a[i])]) :
              a \in [1..n -> {"signext", ""}] } : n \in 0..MaxArgs }

\* shadow arguments passed without an extension attribute
ShadowArgs_NoAttr(n) == [i \in 1..n |-> Ty("i8", "")]

\* one i8 label per argument, marked zeroext at the call
ShadowArgs(n) == [i \in 1..n |-> Ty("i8", "zeroext")]

RetLabelPtr == Ty("ptr", "")

\* the call that replaces a call to fn in an instrumented function
WrapperCall(fn) ==
  [callee |-> "__dfsw_" \o fn.name, ret |-> fn.ret,
   args |-> fn.params \o ShadowArgs(Len(fn.params)) \o <<RetLabelPtr>>]

\* the call inside the trampoline "dfsw$<name>"
TrampolineCall(fn) ==
  [callee |-> "__dfsw_" \o fn.name, ret |-> Ty(fn.ret.ty, ""),
   args |-> [i \in 1..Len(fn.params) |-> Ty(fn.params[i].ty, "")]
            \o ShadowArgs(Len(fn.params)) \o <<RetLabelPtr>>]

\* declare ... @__dfsw_<name>(...)
WrapperDecl(fn) ==
  [name |-> "__dfsw_" \o fn.name, ret |-> fn.ret,
   params |-> fn.params \o [i \in 1..Len(fn.params) |-> Ty("i8", "")] \o <<RetLabelPtr>>]

NoIR == [call |-> <<>>, trampoline |-> <<>>, decl |-> <<>>]

\* the pass rewrites the call in the caller
DInstrumentCall ==
  /\ dpc = "start"
  /\ dout' = [dout EXCEPT !.call = <<WrapperCall(dfn)>>]
  /\ dpc' = "called"
  /\ UNCHANGED <<dfn, svars, bvars, fvars>>

\* the pass emits the trampoline of the function
DBuildTrampoline ==
  /\ dpc = "called"
  /\ dout' = [dout EXCEPT !.trampoline = <<TrampolineCall(dfn)>>]
  /\ dpc' = "trampoline"
  /\ UNCHANGED <<dfn, svars, bvars, fvars>>

\* the pass declares the wrapper
DDeclareWrapper ==
  /\ dpc = "trampoline"
  /\ dout' = [dout EXCEPT !.decl = <<WrapperDecl(dfn)>>]
  /\ dpc' = "done"
  /\ UNCHANGED <<dfn, svars, bvars, fvars>>

DfsanInit ==
  /\ dpc = "start" /\ dfn \in TestFunctions \cup OtherFunctions /\ dout = NoIR

DfsanIdle ==
  /\ dpc = "idle" /\ dfn = Fn("f", Ty("i16", "zeroext"), <<>>) /\ dout = NoIR

DfsanNext == DInstrumentCall \/ DBuildTrampoline \/ DDeclareWrapper

---------------------------------------------------------------------------
(* Specifications                                                          *)

Init == SliceInit /\ BenchIdle /\ FlangIdle /\ DfsanIdle
Next == SliceNext
Spec == Init /\ [][Next]_vars

InitBench == SliceIdle /\ BenchInit /\ FlangIdle /\ DfsanIdle
NextBench == BenchNext
SpecBench == InitBench /\ [][NextBench]_vars

InitFlang == SliceIdle /\ BenchIdle /\ FlangInit /\ DfsanIdle
NextFlang == FlangNext
SpecFlang == InitFlang /\ [][NextFlang]_vars

InitDfsan == SliceIdle /\ BenchIdle /\ FlangIdle /\ DfsanInit
NextDfsan == DfsanNext
SpecDfsan == InitDfsan /\ [][NextDfsan]_vars

---------------------------------------------------------------------------
(* Sliceable: properties                                                   *)

IndexError == [type |-> "IndexError", msg |-> "index out of range"]
HasCall(f) == \E c \in 1..Len(calls) : calls[c].f = f

\* Every slice the program can hold is well formed: each of its elements
\* has a legal linear index, so the assertion of linearizeIndex never fails.
SliceWellFormed ==
  /\ ret.kind # "assert"
  /\ self.length >= 0
  /\ \A k \in 0..(self.length - 1) : LinearIndexLegal(rawN, self.startIndex + k * self.step)

\* C1: getElement(index) returns the index-th element of the slice and
\* supports negative indices: for -length <= i < length it returns
\* getRawElement(startIndex + j*step) with j = i for i >= 0 and
\* j = length + i for i < 0; for every other i (every i when length = 0)
\* it throws index_error("index out of range") without calling
\* getRawElement.
C1_GetElement ==
  op.name = "getElement" =>
    LET i == op.arg.v
        j == IF i >= 0 THEN i ELSE self.length + i
        lin == self.startIndex + j * self.step
    IN IF -self.length <= i /\ i < self.length
       THEN /\ ret = [kind |-> "element", raw |-> lin]
            /\ \E c \in 1..Len(calls) : calls[c] = Call("getRawElement", <<lin>>)
       ELSE /\ ret = [kind |-> "throw", what |-> "index out of range"]
            /\ ~HasCall("getRawElement")

\* C1 witness: a negative index answered on a reversed slice of a slice
C1_Witness ==
  /\ op.name = "getElement" /\ op.arg.v < -1
  /\ self.step < 0 /\ self.length >= 2
  /\ ret.kind = "element"

\* C1 witness of the error case: an index equal to the length throws
C1_WitnessThrow ==
  /\ op.name = "getElement" /\ op.arg.v = self.length /\ self.length > 0
  /\ ret.kind = "throw"

\* C2 (as claimed): getItemSlice on S = (startIndex, length, step) with a
\* Python slice that normalises against length to (start, stop, extraStep,
\* sliceLength) returns Derived::slice(startIndex + start*step, sliceLength,
\* step*extraStep), and element k of the result is element
\* start + k*extraStep of S for every 0 <= k < sliceLength, after any number
\* of nested slicings.
C2_SliceOfSlice ==
  (op.name = "mp_subscript" /\ op.arg.k = "slice"
     /\ PySlice_GetIndicesEx(op.arg, self.length).ok) =>
    LET g == PySlice_GetIndicesEx(op.arg, self.length)
    IN /\ ret = [kind |-> "slice",
                 startIndex |-> self.startIndex + g.start * self.step,
                 length |-> g.sliceLength,
                 step |-> self.step * g.step]
       /\ \A k \in 0..(g.sliceLength - 1) :
            LET inner == getElement(Slice(ret.startIndex, ret.length, ret.step), rawN, k).ret
                outer == getElement(self, rawN, g.start + k * g.step).ret
            IN inner.kind = "element" /\ inner = outer

\* C2 restricted to calls whose intptr_t arithmetic stays in range: the
\* claimed composition holds there
C2_SliceOfSliceInRange ==
  (op.name = "mp_subscript" /\ op.arg.k = "slice" /\ ~ub
     /\ PySlice_GetIndicesEx(op.arg, self.length).ok) =>
    LET g == PySlice_GetIndicesEx(op.arg, self.length)
    IN /\ ret = [kind |-> "slice",
                 startIndex |-> self.startIndex + g.start * self.step,
                 length |-> g.sliceLength,
                 step |-> self.step * g.step]
       /\ \A k \in 0..(g.sliceLength - 1) :
            LET inner == getElement(Slice(ret.startIndex, ret.length, ret.step), rawN, k).ret
                outer == getElement(self, rawN, g.start + k * g.step).ret
            IN inner.kind = "element" /\ inner = outer

\* C3: getItem(index) returns a nullptr object if out of bounds: when the
\* wrapped index is not in [0, length) it sets IndexError "index out of
\* range", returns an empty object and calls neither getRawElement nor
\* linearizeIndex; in bounds it sets no error and returns the cast of the
\* raw element getElement(index) returns.
C3_GetItem ==
  (op.name = "sq_item" \/ (op.name = "mp_subscript" /\ op.arg.k = "int" /\ InSsize(op.arg.v))) =>
    LET i == op.arg.v
        w == IF i < 0 THEN i + self.length ELSE i
        e == getElement(self, rawN, i).ret
    IN IF w < 0 \/ w >= self.length
       THEN /\ ret = Null /\ err = IndexError
            /\ ~HasCall("getRawElement") /\ ~HasCall("linearizeIndex")
       ELSE /\ err = NoErr
            /\ e.kind = "element"
            /\ ret = [kind |-> "object", raw |-> e.raw]
            /\ e.raw = self.startIndex + w * self.step

\* C3 witness: an out-of-bounds negative index on a non-empty slice
C3_Witness ==
  /\ op.name = "sq_item" /\ op.arg.v < 0 /\ self.length > 0
  /\ ret = Null /\ err = IndexError

\* C4 (as claimed): mp_subscript answers a subscript that converts to an
\* index by getItem, a slice by getItemSlice, anything else by ValueError
\* "expected integer or slice" and null; every integer subscript, in or out
\* of range, gives an element or an IndexError, never a ValueError.
C4_Subscript ==
  op.name = "mp_subscript" =>
    /\ op.arg.k = "int" =>
         /\ err.type # "ValueError"
         /\ ret.kind = "object" \/ (ret = Null /\ err.type = "IndexError")
    /\ op.arg.k = "slice" =>
         Outcome(ret, err, calls, ub) \in getItemSlice(self, op.arg)
    /\ op.arg.k \notin {"int", "slice"} =>
         ret = Null /\ err = [type |-> "ValueError", msg |-> "expected integer or slice"]

\* C4 for subscripts that fit Py_ssize_t, where the claim holds
C4_SubscriptFitting ==
  op.name = "mp_subscript" =>
    /\ (op.arg.k = "int" /\ InSsize(op.arg.v)) =>
         /\ Outcome(ret, err, calls, ub) = getItem(self, rawN, op.arg.v)
         /\ ret.kind = "object" \/ (ret = Null /\ err = IndexError)
    /\ op.arg.k = "slice" =>
         Outcome(ret, err, calls, ub) \in getItemSlice(self, op.arg)
    /\ op.arg.k \notin {"int", "slice"} =>
         ret = Null /\ err = [type |-> "ValueError", msg |-> "expected integer or slice"]

---------------------------------------------------------------------------
(* Benchmark registration: properties                                      *)

TestFiles == [i \in 1..Len(BENCHMARK_TESTS) |-> get_filename_component_NAME(BENCHMARK_TESTS[i])]
TestNames == [i \in 1..Len(BENCHMARK_TESTS) |-> string_REPLACE(".bench.cpp", "", TestFiles[i])]
ReportedIn(run) == {bmsgs[i].text : i \in {j \in 1..Len(bmsgs) : bmsgs[j].run = run}}
IsTarget(t) == \E i \in 1..Len(bproj.targets) : bproj.targets[i] = t

\* C6: the registration loop only reports the adding of a benchmark once:
\* over the configure runs sharing a cache, "Adding Benchmark: <file>" is
\* emitted for a benchmark only in the first run in which <name>_REPORTED is
\* not defined, while add_benchmark_test is called for every entry of
\* BENCHMARK_TESTS in every run.
C6_ReportedOnce ==
  /\ \A i, j \in 1..Len(bmsgs) : i # j => bmsgs[i].text # bmsgs[j].text
  /\ bpc \in {"loop", "done"} =>
       /\ Len(badded) = bidx - 1
       /\ \A k \in 1..(bidx - 1) :
            /\ badded[k] = <<TestNames[k], BENCHMARK_TESTS[k]>>
            /\ (("Adding Benchmark: " \o TestFiles[k]) \in ReportedIn(brun))
                 <=> ((TestNames[k] \o "_REPORTED") \notin bcache0)
            /\ (TestNames[k] \o "_REPORTED") \in bcache
  /\ bpc = "done" => Len(badded) = Len(BENCHMARK_TESTS)
  /\ bpc # "error"

\* C6 witness: a second run over the cache of the first has ended: every
\* benchmark was added again and none reported again
C6_Witness ==
  /\ brun = 2 /\ bpc = "done"
  /\ Len(badded) = Len(BENCHMARK_TESTS)
  /\ ReportedIn(2) = {}
  /\ Cardinality(ReportedIn(1)) = Len(BENCHMARK_TESTS)

\* C7: add_benchmark_test(name, source) always creates <name>_libcxx and
\* makes cxx-benchmarks depend on it, linked against exactly one of
\* cxx_shared (LIBCXX_ENABLE_SHARED) and cxx_static (otherwise); it creates
\* <name>_native and makes cxx-benchmarks depend on it if and only if
\* LIBCXX_BENCHMARK_NATIVE_STDLIB is set; the names derived from
\* BENCHMARK_TESTS are pairwise distinct, so no target is defined twice.
C7_Targets ==
  /\ ~bproj.error
  /\ \A i, j \in 1..Len(bproj.targets) : i # j => bproj.targets[i] # bproj.targets[j]
  /\ \A i, j \in 1..Len(BENCHMARK_TESTS) : i # j => TestNames[i] # TestNames[j]
  /\ \A k \in 1..Len(badded) :
       LET name == badded[k][1]
           lt == name \o "_libcxx"
           nt == name \o "_native"
           shared == <<lt, "cxx_shared">> \in bproj.links
           static == <<lt, "cxx_static">> \in bproj.links
           native == bopts.LIBCXX_BENCHMARK_NATIVE_STDLIB # ""
       IN /\ IsTarget(lt)
          /\ <<"cxx-benchmarks", lt>> \in bproj.deps
          /\ shared # static
          /\ shared <=> (bopts.LIBCXX_ENABLE_SHARED = "ON")
          /\ IsTarget(nt) <=> native
          /\ (<<"cxx-benchmarks", nt>> \in bproj.deps) <=> native

\* C7 witness: a run with static libc++ and a native stdlib has added every
\* benchmark
C7_Witness ==
  /\ bpc = "done"
  /\ bopts.LIBCXX_ENABLE_SHARED = "OFF"
  /\ bopts.LIBCXX_BENCHMARK_NATIVE_STDLIB = "libstdc++"
  /\ IsTarget("vector_operations_native")
  /\ <<"vector_operations_libcxx", "cxx_static">> \in bproj.links

---------------------------------------------------------------------------
(* Fortran runtime configuration: properties                               *)

FatalStrerror == <<"FATAL_ERROR", "None of strerror, strerror_r, strerror_s found.">>

\* C8: configuration stops with the fatal error "None of strerror,
\* strerror_r, strerror_s found." exactly when the three probes
\* HAVE_STRERROR, HAVE_STRERROR_R and HAVE_DECL_STRERROR_S are all false;
\* otherwise it goes on to configure config.h and define FortranRuntime;
\* a standalone build defines exactly one of FLANG_BIG_ENDIAN=1 and
\* FLANG_LITTLE_ENDIAN=1.
C8_Strerror ==
  LET any == fenv.HAVE_STRERROR \/ fenv.HAVE_STRERROR_R \/ fenv.HAVE_DECL_STRERROR_S
      stopped == \E i \in 1..Len(fout.msgs) : fout.msgs[i] = FatalStrerror
      big == "FLANG_BIG_ENDIAN=1" \in fdefs
      little == "FLANG_LITTLE_ENDIAN=1" \in fdefs
  IN /\ fpc \in {"start", "probes", "lto", "check"} => ~stopped
     /\ fpc \in {"fatal", "configure", "library", "done"} =>
          /\ (fpc = "fatal") <=> ~any
          /\ stopped <=> ~any
     /\ fpc = "fatal" => fout.configured = {} /\ fout.libraries = {}
     /\ fpc \in {"configure", "library"} => ENABLED NextFlang
     /\ fpc \in {"library", "done"} => "config.h" \in fout.configured
     /\ fpc = "done" => "FortranRuntime" \in fout.libraries
     /\ (fenv.standalone /\ fpc \notin {"idle", "start"}) =>
          /\ big # little
          /\ big <=> fenv.IS_BIGENDIAN

\* C8 witness: a standalone little-endian build with none of the three
\* functions has stopped with the fatal error
C8_Witness ==
  /\ fpc = "fatal" /\ fenv.standalone /\ ~fenv.IS_BIGENDIAN
  /\ fout.msgs = <<FatalStrerror>>
  /\ fdefs = {"FLANG_LITTLE_ENDIAN=1"}

\* C8 second case: strerror_s alone is enough to reach the library
C8_WitnessProceeds ==
  /\ fpc = "done"
  /\ ~fenv.HAVE_STRERROR /\ ~fenv.HAVE_STRERROR_R /\ fenv.HAVE_DECL_STRERROR_S
  /\ "FortranRuntime" \in fout.libraries

---------------------------------------------------------------------------
(* dfsan custom ABI: properties                                            *)

Rep(x, n) == [i \in 1..n |-> x]

\* the CHECK lines of the test, per function: the call in the caller, the
\* call in the trampoline, the declaration of the wrapper
TestExpected(name, n) ==
  [call |-> <<[callee |-> "__dfsw_" \o name, ret |-> Ty("i16", "zeroext"),
               args |-> Rep(Ty("i64", "signext"), n) \o Rep(Ty("i8", "zeroext"), n)
                        \o <<Ty("ptr", "")>>]>>,
   trampoline |-> <<[callee |-> "__dfsw_" \o name, ret |-> Ty("i16", ""),
                     args |-> Rep(Ty("i64", ""), n) \o Rep(Ty("i8", "zeroext"), n)
                              \o <<Ty("ptr", "")>>]>>,
   decl |-> <<[name |-> "__dfsw_" \o name, ret |-> Ty("i16", "zeroext"),
               params |-> Rep(Ty("i64", "signext"), n) \o Rep(Ty("i8", ""), n)
                          \o <<Ty("ptr", "")>>]>>]

\* the modelled pass emits what the test checks for its three functions
DfsanAgreesWithTest ==
  (dpc = "done" /\ dfn \in TestFunctions) =>
    dout = TestExpected(dfn.name, Len(dfn.params))

IsShadowLayout(args, params) ==
  LET n == Len(params)
  IN /\ Len(args) = 2 * n + 1
     /\ \A i \in 1..n : args[i].ty = params[i].ty
     /\ \A i \in (n + 1)..(2 * n) : args[i] = Ty("i8", "zeroext")
     /\ args[2 * n + 1].ty = "ptr"

\* C5 (as claimed): the custom abi marks shadow parameters as zero extended:
\* a call to a custom-ABI function with n arguments becomes a call of the
\* __dfsw_ wrapper with the n original arguments (keeping their signext
\* attributes), then exactly n i8 shadow arguments each marked zeroext, then
\* one pointer for the return label, and the result keeps zeroext i16; the
\* same shape holds for the calls inside the "dfsw$" trampolines.
C5_ShadowArgsClaimed ==
  \A c \in {dout.call, dout.trampoline} :
    c # <<>> =>
      /\ IsShadowLayout(c[1].args, dfn.params)
      /\ \A i \in 1..Len(dfn.params) : c[1].args[i] = dfn.params[i]
      /\ c[1].ret = dfn.ret

\* C5 (amended): the call in the caller is as claimed; the call inside the
\* trampoline has the same layout (n originals, n i8 zeroext shadows, one
\* pointer) but passes the originals without signext and its result carries
\* no zeroext.
C5_ShadowArgs ==
  /\ dout.call # <<>> =>
       /\ IsShadowLayout(dout.call[1].args, dfn.params)
       /\ \A i \in 1..Len(dfn.params) : dout.call[1].args[i] = dfn.params[i]
       /\ dout.call[1].ret = dfn.ret
       /\ dout.call[1].callee = "__dfsw_" \o dfn.name
  /\ dout.trampoline # <<>> =>
       /\ IsShadowLayout(dout.trampoline[1].args, dfn.params)
       /\ \A i \in 1..Len(dfn.params) : dout.trampoline[1].args[i].attr = ""
       /\ dout.trampoline[1].ret = Ty(dfn.ret.ty, "")
       /\ dout.trampoline[1].callee = "__dfsw_" \o dfn.name

\* C5 witness: the four-argument function k4 of the test, caller and
\* trampoline both emitted
C5_Witness ==
  /\ dpc = "done" /\ dfn.name = "k4" /\ Len(dfn.params) = 4
  /\ dout.call # <<>> /\ dout.trampoline # <<>>
  /\ Len(dout.call[1].args) = 9
=============================================================================
